---- MODULE Spec2Model ----
(***************************************************************************)
(* Model of src/api/dependencies.py: the tool-call validator returned by   *)
(* get_validated_tool_call and the request-scoped session provider get_db  *)
(* with the three repository factories that depend on it.                  *)
(***************************************************************************)
EXTENDS Integers, Sequences, FiniteSets, TLC

VARIABLES
    \* ---- validate_dependency (one invocation) ----
    function_name,   \* closure variable: the target function name F
    request,         \* request.message.toolCalls: sequence of tool calls
    idx,             \* position of the for loop over toolCalls (1-based)
    vpc,             \* "loop" | "except" | "returned" | "raised"
    exc,             \* exception in flight inside the try block
    result,          \* the returned ValidatedToolCall
    error,           \* the HTTPException that left validate_dependency
    parseCalls,      \* history: sequence of loop positions whose arguments were parsed
    catches,         \* history: sequence of except clauses that handled an exception
    \* ---- get_db and the repository factories (per request) ----
    rpc,             \* per request: position in its lifecycle
    db,              \* per request: local variable db of its get_db frame
    outcome,         \* per request: how the consumer's scope ended
    held,            \* per request: repository objects yielded to it, as [kind, db]
    sessions         \* session objects created by SessionLocal(): id -> times closed

validatorVars == <<function_name, request, idx, vpc, exc, result, error, parseCalls, catches>>
sessionVars == <<rpc, db, outcome, held, sessions>>
vars == <<validatorVars, sessionVars>>

None == [type |-> "None"]

----------------------------------------------------------------------------
(* Bounds *)

MaxToolCalls == 3

NumRequests == 2

----------------------------------------------------------------------------
(* Request data *)

FunctionNames == {"create_task", "delete_task"}

\* Raw argument payloads, as token sequences of the JSON text.
RawArguments ==
    { <<"{", "\"title\"", ":", "\"a\"", "}">>,
      <<"{", "\"title\"", ":", "\"b\"", ",", "\"note\"", ":", "\"a\"", "}">>,
      <<"{", "}">>,
      <<"{", "\"title\"", ":", "null", "}">>,
      <<"[", "]">>,
      <<"{", "\"title\"", ":">> }

\* tool_call.function: a name and the raw arguments
Functions == [name : FunctionNames, arguments : RawArguments]

RECURSIVE SeqsUpTo(_, _)
SeqsUpTo(S, n) ==
    IF n = 0 THEN { <<>> }
    ELSE LET shorter == SeqsUpTo(S, n - 1)
         IN  shorter \cup { Append(s, e) : s \in { t \in shorter : Len(t) = n - 1 }, e \in S }

\* request.message.toolCalls: every tool call of a request has its own id
VapiRequests ==
    { [i \in DOMAIN fs |-> [id |-> ToString(i), name |-> fs[i].name,
                            arguments |-> fs[i].arguments]] :
      fs \in SeqsUpTo(Functions, MaxToolCalls) }

----------------------------------------------------------------------------
(* parse_json_args: the JSON-argument parser of src/utils/helpers.py.       *)
(* Its contract is parse(raw) -> structured value, failing on malformed    *)
(* input with an error that is neither HTTPException nor ValidationError.  *)

StringTokens == {"\"title\"", "\"note\"", "\"a\"", "\"b\""}

ScalarTokens == StringTokens \cup {"null"}

Unquote ==
    ("\"title\"" :> "title") @@ ("\"note\"" :> "note") @@ ("\"a\"" :> "a") @@ ("\"b\"" :> "b")

ParseScalar(tok) ==
    IF tok = "null" THEN [type |-> "NoneType", str |-> ""]
    ELSE [type |-> "str", str |-> Unquote[tok]]

JSONDecodeError(msg) == [type |-> "JSONDecodeError", status_code |-> 0, detail |-> <<msg>>]

ParseOk(v) == [ok |-> TRUE, value |-> v, error |-> None]

ParseFail(msg) == [ok |-> FALSE, value |-> None, error |-> JSONDecodeError(msg)]

PyDict(items) == [type |-> "dict", str |-> "", items |-> items]

\* members of an object after "{" or ",": key ":" value, then "}" or "," and more
RECURSIVE ParseMembers(_, _)
ParseMembers(toks, acc) ==
    IF Len(toks) < 4 THEN ParseFail("Expecting value")
    ELSE IF toks[1] \notin StringTokens THEN ParseFail("Expecting property name")
    ELSE IF toks[2] # ":" THEN ParseFail("Expecting ':' delimiter")
    ELSE IF toks[3] \notin ScalarTokens THEN ParseFail("Expecting value")
    ELSE LET acc2 == (Unquote[toks[1]] :> ParseScalar(toks[3])) @@ acc
         IN  IF toks[4] = "}"
             THEN IF Len(toks) = 4 THEN ParseOk(PyDict(acc2)) ELSE ParseFail("Extra data")
             ELSE IF toks[4] = ","
                  THEN ParseMembers(SubSeq(toks, 5, Len(toks)), acc2)
                  ELSE ParseFail("Expecting ',' delimiter")

parse_json_args(raw) ==
    IF raw = <<>> THEN ParseFail("Expecting value")
    ELSE IF raw[1] = "{"
         THEN IF Len(raw) >= 2 /\ raw[2] = "}"
              THEN IF Len(raw) = 2 THEN ParseOk(PyDict(<<>>)) ELSE ParseFail("Extra data")
              ELSE ParseMembers(Tail(raw), <<>>)
    ELSE IF raw[1] = "["
         THEN IF raw = <<"[", "]">>
              THEN ParseOk([type |-> "list", str |-> "", items |-> <<>>])
              ELSE ParseFail("Expecting value")
    ELSE IF Len(raw) = 1 /\ raw[1] \in ScalarTokens
         THEN ParseOk([type |-> ParseScalar(raw[1]).type, str |-> ParseScalar(raw[1]).str,
                       items |-> <<>>])
         ELSE ParseFail("Expecting value")

----------------------------------------------------------------------------
(* args_model applied to the unpacked args_dict: the schema validation.    *)

\* The schema of the running example: one required string field, title.
RequiredFields == {"title"}

ValidationError(field, msg) ==
    [type |-> "ValidationError", status_code |-> 0,
     detail |-> <<"1 validation error for args_model: ", field, msg>>]

TypeError(msg) == [type |-> "TypeError", status_code |-> 0, detail |-> <<msg>>]

ConstructOk(v) == [ok |-> TRUE, value |-> v, error |-> None]

ConstructFail(e) == [ok |-> FALSE, value |-> None, error |-> e]

\* keyword unpacking needs a mapping; then every required field must be present
\* and a string; fields the schema does not declare are ignored.
args_model(args_dict) ==
    IF args_dict.type # "dict"
    THEN ConstructFail(TypeError("argument after ** must be a mapping"))
    ELSE LET items == args_dict.items
             missing == { f \in RequiredFields : f \notin DOMAIN items }
             illtyped == { f \in RequiredFields \ missing : items[f].type # "str" }
         IN  IF missing # {}
             THEN ConstructFail(ValidationError(CHOOSE f \in missing : TRUE, " field required"))
             ELSE IF illtyped # {}
                  THEN ConstructFail(ValidationError(CHOOSE f \in illtyped : TRUE,
                                                     " str type expected"))
                  ELSE ConstructOk([f \in RequiredFields |-> items[f].str])

ValidatedToolCall(tool_call_id, args) ==
    [type |-> "ValidatedToolCall", tool_call_id |-> tool_call_id, args |-> args]

HTTPException(status_code, detail) ==
    [type |-> "HTTPException", status_code |-> status_code, detail |-> detail]

----------------------------------------------------------------------------
(* validate_dependency, the function returned by get_validated_tool_call   *)

\* tool_call.function.name == function_name
Matches(tool_call) == tool_call.name = function_name

\* variant: wraps the id of the request's first tool call, not of the matched one
ExtractToolCallFirstId(tool_call) ==
    LET args_dict == parse_json_args(tool_call.arguments)
    IN  IF ~args_dict.ok THEN ConstructFail(args_dict.error)
        ELSE LET validated_args == args_model(args_dict.value)
             IN  IF ~validated_args.ok THEN ConstructFail(validated_args.error)
                 ELSE ConstructOk(ValidatedToolCall(request[1].id, validated_args.value))

\* body of the if: parse the arguments, build the schema instance, wrap it
ExtractToolCall(tool_call) ==
    LET args_dict == parse_json_args(tool_call.arguments)
    IN  IF ~args_dict.ok THEN ConstructFail(args_dict.error)
        ELSE LET validated_args == args_model(args_dict.value)
             IN  IF ~validated_args.ok THEN ConstructFail(validated_args.error)
                 ELSE ConstructOk(ValidatedToolCall(tool_call.id, validated_args.value))

\* variant: the 400 does not say which function was expected
BadRequestUnnamed == HTTPException(400, <<"Invalid Request: Expected function call">>)

\* raise HTTPException(status_code=400, ...) after the loop
BadRequest ==
    HTTPException(400, <<"Invalid Request: Expected '", function_name, "' function call">>)

\* variant: the ValidationError clause catches every ValueError
ExceptClauseValueError(e) ==
    IF e.type = "HTTPException" THEN "HTTPException"
    ELSE IF e.type \in {"ValidationError", "JSONDecodeError"} THEN "ValidationError"
    ELSE "Exception"

\* variant: no except HTTPException clause ahead of the others
ExceptClauseNoReraise(e) ==
    IF e.type = "ValidationError" THEN "ValidationError"
    ELSE "Exception"

\* which except clause handles exception e
ExceptClause(e) ==
    IF e.type = "HTTPException" THEN "HTTPException"
    ELSE IF e.type = "ValidationError" THEN "ValidationError"
    ELSE "Exception"

\* variant: the 422 carries the validation detail only
ValidationFailureUnnamed(e) == HTTPException(422, <<"Invalid arguments: ">> \o e.detail)

\* raise HTTPException(status_code=422, ...)
ValidationFailure(e) ==
    HTTPException(422, <<"Invalid arguments for ", function_name, ": ">> \o e.detail)

\* raise HTTPException(status_code=500, detail=str(e))
UnexpectedFailure(e) == HTTPException(500, e.detail)

\* one iteration of the for loop whose tool call has another name
ForNext ==
    /\ vpc = "loop"
    /\ idx <= Len(request)
    /\ ~Matches(request[idx])
    /\ idx' = idx + 1
    /\ UNCHANGED <<function_name, request, vpc, exc, result, error, parseCalls, catches>>
    /\ UNCHANGED sessionVars

\* variant: a tool call whose arguments fail is skipped and the scan goes on
ForMatchContinue ==
    /\ vpc = "loop"
    /\ idx <= Len(request)
    /\ Matches(request[idx])
    /\ LET r == ExtractToolCall(request[idx])
       IN  /\ parseCalls' = Append(parseCalls, idx)
           /\ IF r.ok
              THEN /\ result' = r.value
                   /\ vpc' = "returned"
                   /\ UNCHANGED idx
              ELSE /\ idx' = idx + 1
                   /\ UNCHANGED <<result, vpc>>
    /\ UNCHANGED <<function_name, request, exc, error, catches>>
    /\ UNCHANGED sessionVars

\* the iteration that finds a tool call named function_name
ForMatch ==
    /\ vpc = "loop"
    /\ idx <= Len(request)
    /\ Matches(request[idx])
    /\ LET r == ExtractToolCall(request[idx])
       IN  /\ parseCalls' = Append(parseCalls, idx)
           /\ IF r.ok
              THEN /\ result' = r.value
                   /\ vpc' = "returned"
                   /\ UNCHANGED exc
              ELSE /\ exc' = r.error
                   /\ vpc' = "except"
                   /\ UNCHANGED result
    /\ UNCHANGED <<function_name, request, idx, error, catches>>
    /\ UNCHANGED sessionVars

\* the loop ends without a match
ForExhausted ==
    /\ vpc = "loop"
    /\ idx > Len(request)
    /\ exc' = BadRequest
    /\ vpc' = "except"
    /\ UNCHANGED <<function_name, request, idx, result, error, parseCalls, catches>>
    /\ UNCHANGED sessionVars

\* except HTTPException: raise
ExceptHTTPException ==
    /\ vpc = "except"
    /\ ExceptClause(exc) = "HTTPException"
    /\ error' = exc
    /\ vpc' = "raised"
    /\ catches' = Append(catches, "HTTPException")
    /\ UNCHANGED <<function_name, request, idx, exc, result, parseCalls>>
    /\ UNCHANGED sessionVars

\* except ValidationError as e: raise HTTPException(422)
ExceptValidationError ==
    /\ vpc = "except"
    /\ ExceptClause(exc) = "ValidationError"
    /\ error' = ValidationFailure(exc)
    /\ vpc' = "raised"
    /\ catches' = Append(catches, "ValidationError")
    /\ UNCHANGED <<function_name, request, idx, exc, result, parseCalls>>
    /\ UNCHANGED sessionVars

\* except Exception as e: raise HTTPException(500)
ExceptException ==
    /\ vpc = "except"
    /\ ExceptClause(exc) = "Exception"
    /\ error' = UnexpectedFailure(exc)
    /\ vpc' = "raised"
    /\ catches' = Append(catches, "Exception")
    /\ UNCHANGED <<function_name, request, idx, exc, result, parseCalls>>
    /\ UNCHANGED sessionVars

\* get_validated_tool_call(function_name, args_model)(request), before its first step
ValidatorInit ==
    /\ function_name \in FunctionNames
    /\ request \in VapiRequests
    /\ idx = 1
    /\ vpc = "loop"
    /\ exc = None
    /\ result = None
    /\ error = None
    /\ parseCalls = <<>>
    /\ catches = <<>>

\* no request is being served
SessionIdle ==
    /\ rpc = <<>>
    /\ db = <<>>
    /\ outcome = <<>>
    /\ held = <<>>
    /\ sessions = <<>>

InitValidator == ValidatorInit /\ SessionIdle

NextValidator ==
    \/ ForNext
    \/ ForMatch
    \/ ForExhausted
    \/ ExceptHTTPException
    \/ ExceptValidationError
    \/ ExceptException

SpecValidator == InitValidator /\ [][NextValidator]_vars

----------------------------------------------------------------------------
(* get_db, get_todo_repository, get_reminder_repository and                *)
(* get_calendar_event_repository, driven by concurrently served requests   *)

Requests == 1 .. NumRequests

\* SessionLocal(): a new session object on every call
SessionLocal == Len(sessions) + 1

\* variant: the session is a module-level name that every get_db rebinds
DependsGetDbLatest(r) == Len(sessions)

\* db: Session = Depends(get_db): the session yielded by this request's get_db
DependsGetDb(r) == db[r]

\* no request has been received
SessionInit ==
    /\ rpc = [r \in Requests |-> "idle"]
    /\ db = [r \in Requests |-> 0]
    /\ outcome = [r \in Requests |-> "none"]
    /\ held = [r \in Requests |-> {}]
    /\ sessions = <<>>

\* no validator is running
ValidatorIdle ==
    /\ function_name = "create_task"
    /\ request = <<>>
    /\ idx = 1
    /\ vpc = "loop"
    /\ exc = None
    /\ result = None
    /\ error = None
    /\ parseCalls = <<>>
    /\ catches = <<>>

\* get_db up to its yield: db = SessionLocal(); try: yield db
GetDbYield(r) ==
    /\ rpc[r] = "idle"
    /\ sessions' = Append(sessions, 0)
    /\ db' = [db EXCEPT ![r] = SessionLocal]
    /\ rpc' = [rpc EXCEPT ![r] = "yielded"]
    /\ UNCHANGED <<outcome, held>>
    /\ UNCHANGED validatorVars

\* yield XRepository(db): a repository around the session; a repository has
\* no state but its kind and the session it is bound to, which identify it
YieldRepository(r, kind) ==
    /\ rpc[r] = "yielded"
    /\ \A repo \in held[r] : repo.kind # kind
    /\ held' = [held EXCEPT ![r] = @ \cup {[kind |-> kind, db |-> DependsGetDb(r)]}]
    /\ UNCHANGED <<rpc, db, outcome, sessions>>
    /\ UNCHANGED validatorVars

get_todo_repository(r) == YieldRepository(r, "TodoRepository")

get_reminder_repository(r) == YieldRepository(r, "ReminderRepository")

get_calendar_event_repository(r) == YieldRepository(r, "CalendarEventRepository")

\* the consumer's scope ends by return, error or cancellation: the repository
\* generators run past their yield and end, get_db is about to leave its yield
ScopeEnds(r, how) ==
    /\ rpc[r] = "yielded"
    /\ rpc' = [rpc EXCEPT ![r] = "exiting"]
    /\ outcome' = [outcome EXCEPT ![r] = how]
    /\ held' = [held EXCEPT ![r] = {}]
    /\ UNCHANGED <<db, sessions>>
    /\ UNCHANGED validatorVars

ScopeReturns(r) == ScopeEnds(r, "returned")

ScopeRaises(r) == ScopeEnds(r, "raised")

ScopeCancelled(r) == ScopeEnds(r, "cancelled")

\* variant: the session is closed in an except clause and again in finally
GetDbFinallyTwice(r) ==
    /\ rpc[r] = "exiting"
    /\ sessions' = [sessions EXCEPT ![db[r]] = @ + (IF outcome[r] = "raised" THEN 2 ELSE 1)]
    /\ rpc' = [rpc EXCEPT ![r] = "done"]
    /\ UNCHANGED <<db, outcome, held>>
    /\ UNCHANGED validatorVars

\* variant: db.close() follows the yield without try/finally
GetDbCloseAfterYield(r) ==
    /\ rpc[r] = "exiting"
    /\ sessions' = [sessions EXCEPT ![db[r]] = @ + (IF outcome[r] = "returned" THEN 1 ELSE 0)]
    /\ rpc' = [rpc EXCEPT ![r] = "done"]
    /\ UNCHANGED <<db, outcome, held>>
    /\ UNCHANGED validatorVars

\* finally: db.close()
GetDbFinally(r) ==
    /\ rpc[r] = "exiting"
    /\ sessions' = [sessions EXCEPT ![db[r]] = @ + 1]
    /\ rpc' = [rpc EXCEPT ![r] = "done"]
    /\ UNCHANGED <<db, outcome, held>>
    /\ UNCHANGED validatorVars

InitSession == SessionInit /\ ValidatorIdle

NextSession ==
    \E r \in Requests :
        \/ GetDbYield(r)
        \/ get_todo_repository(r)
        \/ get_reminder_repository(r)
        \/ get_calendar_event_repository(r)
        \/ ScopeReturns(r)
        \/ ScopeRaises(r)
        \/ ScopeCancelled(r)
        \/ GetDbFinally(r)

SpecSession == InitSession /\ [][NextSession]_vars

\* a get_db generator whose consumer's scope has ended is run to its end
FairSpecSession == SpecSession /\ \A r \in Requests : WF_vars(GetDbFinally(r))

----------------------------------------------------------------------------
(* Properties of the validator *)

\* positions of the tool calls named function_name
MatchingPositions == { i \in DOMAIN request : request[i].name = function_name }

HasMatch == MatchingPositions # {}

\* the first tool call named function_name, in sequence order
FirstMatch == request[CHOOSE i \in MatchingPositions : \A j \in MatchingPositions : i <= j]

FirstPosition == CHOOSE i \in MatchingPositions : \A j \in MatchingPositions : i <= j

Finished == vpc \in {"returned", "raised"}

Mentions(detail, name) == \E i \in DOMAIN detail : detail[i] = name

FirstParses == HasMatch /\ parse_json_args(FirstMatch.arguments).ok

FirstParsed == parse_json_args(FirstMatch.arguments).value

FirstValid == FirstParses /\ args_model(FirstParsed).ok

\* C1: when the first tool call named F has arguments that parse and validate,
\* the validator raises nothing and returns a ValidatedToolCall with that tool
\* call's id and its validated arguments.
C1_ValidFirstMatchReturned ==
    FirstValid =>
        /\ vpc \in {"loop", "returned"}
        /\ exc = None
        /\ error = None
        /\ vpc = "returned" =>
              /\ result.type = "ValidatedToolCall"
              /\ result.tool_call_id = FirstMatch.id
              /\ result.args = args_model(FirstParsed).value

\* a valid first match behind a tool call of another name and ahead of a
\* second tool call named F with another id and other arguments
C1_Witness ==
    /\ vpc = "returned"
    /\ FirstValid
    /\ FirstPosition = 2
    /\ Len(request) = 3
    /\ request[3].name = function_name
    /\ request[3].id # FirstMatch.id
    /\ request[3].arguments # FirstMatch.arguments
    /\ DOMAIN FirstParsed.items # RequiredFields

\* C2: when no tool call is named F (the empty sequence included) the
\* validator fails with a 400 whose detail names F and parses no arguments.
C2_NoMatchBadRequest ==
    ~HasMatch =>
        /\ parseCalls = <<>>
        /\ vpc # "returned"
        /\ result = None
        /\ vpc = "raised" =>
              /\ error.type = "HTTPException"
              /\ error.status_code = 400
              /\ Mentions(error.detail, function_name)

C2_Witness ==
    /\ vpc = "raised"
    /\ ~HasMatch
    /\ Len(request) = 2
    /\ error.status_code = 400
    /\ parseCalls = <<>>

\* the first tool call named F parses to an object that lacks a required field
FirstMissingField ==
    /\ FirstParses
    /\ FirstParsed.type = "dict"
    /\ \E f \in RequiredFields : f \notin DOMAIN FirstParsed.items

\* C3: when the first tool call named F lacks a required field the validator
\* fails with a 422 whose detail mentions F, also when a later tool call named
\* F has valid arguments.
C3_MissingFieldValidationFailure ==
    FirstMissingField =>
        /\ vpc # "returned"
        /\ result = None
        /\ vpc = "raised" =>
              /\ error.type = "HTTPException"
              /\ error.status_code = 422
              /\ Mentions(error.detail, function_name)

\* a 422 for a first match without the field although a later match is valid
C3_Witness ==
    /\ vpc = "raised"
    /\ FirstMissingField
    /\ error.status_code = 422
    /\ \E j \in MatchingPositions :
          /\ j > FirstPosition
          /\ parse_json_args(request[j].arguments).ok
          /\ args_model(parse_json_args(request[j].arguments).value).ok

\* what the tool call alone decides: the wrapper, or the status of the error
OutcomeOf(tool_call) ==
    LET r == ExtractToolCall(tool_call)
    IN  IF r.ok THEN [returned |-> TRUE, value |-> r.value, status_code |-> 0]
        ELSE [returned |-> FALSE, value |-> None,
              status_code |-> IF r.error.type = "ValidationError" THEN 422 ELSE 500]

\* C4: only the first tool call named F is selected: the outcome is a function
\* of that tool call alone, whatever precedes and follows it, and at most one
\* tool call's arguments are parsed, those of the first match.
C4_FirstMatchWins ==
    /\ Len(parseCalls) <= 1
    /\ HasMatch =>
          /\ \A k \in DOMAIN parseCalls : parseCalls[k] = FirstPosition
          /\ idx <= FirstPosition
          /\ vpc = "returned" =>
                /\ OutcomeOf(FirstMatch).returned
                /\ result = OutcomeOf(FirstMatch).value
          /\ vpc = "raised" =>
                /\ ~OutcomeOf(FirstMatch).returned
                /\ error.status_code = OutcomeOf(FirstMatch).status_code

\* a finished invocation whose later tool call named F would have decided otherwise
C4_Witness ==
    /\ Finished
    /\ HasMatch
    /\ FirstPosition = 2
    /\ Len(request) = 3
    /\ request[3].name = function_name
    /\ OutcomeOf(request[3]) # OutcomeOf(FirstMatch)
    /\ parseCalls = <<2>>

\* C5: when the first tool call named F has arguments that are not
\* well-formed JSON the validator fails with a 500 that carries the raw error
\* text, never with a 422 and never with a result.
C5_MalformedJsonUnexpectedFailure ==
    (HasMatch /\ ~FirstParses) =>
        /\ vpc # "returned"
        /\ result = None
        /\ vpc = "raised" =>
              /\ error.type = "HTTPException"
              /\ error.status_code = 500
              /\ error.detail = parse_json_args(FirstMatch.arguments).error.detail

C5_Witness ==
    /\ vpc = "raised"
    /\ HasMatch
    /\ ~FirstParses
    /\ error.status_code = 500
    /\ exc.type = "JSONDecodeError"

\* C9: an invocation ends in exactly one of a ValidatedToolCall, a 400, a 422
\* or a 500; the 400 passes the except clauses unchanged; every other failure
\* is caught once and becomes a 422 or a 500; no failure turns into a result,
\* nothing unclassified escapes and nothing is parsed or validated twice.
C9_ClassifiedOnce ==
    /\ Len(parseCalls) <= 1
    /\ Len(catches) <= 1
    /\ vpc \in {"loop", "except", "returned", "raised"}
    /\ vpc = "returned" =>
          /\ result.type = "ValidatedToolCall"
          /\ error = None
          /\ exc = None
          /\ catches = <<>>
    /\ vpc = "raised" =>
          /\ result = None
          /\ exc # None
          /\ Len(catches) = 1
          /\ error.type = "HTTPException"
          /\ error.status_code \in {400, 422, 500}
          /\ exc.type = "HTTPException" => error = exc /\ error.status_code = 400
          /\ exc.type # "HTTPException" => error.status_code \in {422, 500}
    /\ vpc \in {"loop", "except"} => result = None /\ error = None

\* the 400 raised inside the try block left the function as it was raised
C9_Witness ==
    /\ vpc = "raised"
    /\ exc.type = "HTTPException"
    /\ error = exc
    /\ catches = <<"HTTPException">>
    /\ Len(request) >= 1

\* the first tool call named F parses, but not to a value the schema accepts
FirstNonConforming == FirstParses /\ ~args_model(FirstParsed).ok

\* C10: when the arguments of the first tool call named F parse but do not
\* conform to the schema in any way (a missing field, an ill-typed field, a
\* value that is no object) the validator fails with a 422 mentioning F,
\* never with a 500.
C10_NonConformingIs422 ==
    (FirstNonConforming /\ vpc = "raised") =>
        /\ error.status_code = 422
        /\ Mentions(error.detail, function_name)

----------------------------------------------------------------------------
(* Properties of the session provider and the repository factories *)

InScope(r) == rpc[r] \in {"yielded", "exiting"}

Opened(r) == db[r] # 0

\* C6: the session opened by an invocation of get_db is closed exactly once:
\* never twice, never while the consumer's scope or the generators entered in
\* it are still active, and once when the scope has ended, normally or with
\* an error.
C6_ClosedExactlyOnce ==
    /\ \A s \in DOMAIN sessions : sessions[s] <= 1
    /\ \A r \in Requests :
          /\ rpc[r] = "idle" <=> ~Opened(r)
          /\ InScope(r) => sessions[db[r]] = 0
          /\ rpc[r] = "done" => sessions[db[r]] = 1

\* one request ended normally and another with an error, both sessions closed once
C6_Witness ==
    \E r1, r2 \in Requests :
        /\ rpc[r1] = "done" /\ outcome[r1] = "returned" /\ sessions[db[r1]] = 1
        /\ rpc[r2] = "done" /\ outcome[r2] = "raised" /\ sessions[db[r2]] = 1

\* C7: a session opened by get_db is released on every exit path: once the
\* scope has ended by return, error or cancellation the session is eventually
\* closed, and no finished request has an open session.
C7_ReleasedOnEveryExit ==
    /\ \A r \in Requests :
          (rpc[r] = "exiting") ~> (rpc[r] = "done" /\ sessions[db[r]] >= 1)
    /\ [](\A r \in Requests : rpc[r] = "done" => sessions[db[r]] >= 1)

\* a cancelled request has finished and its session is closed
C7_Witness ==
    \E r \in Requests :
        /\ rpc[r] = "done"
        /\ outcome[r] = "cancelled"
        /\ sessions[db[r]] >= 1

\* C8: concurrently served requests share nothing: two requests in scope have
\* different sessions and no repository in common, every repository is bound
\* to the session of the request it was yielded to, and a request in scope
\* has an open session whatever other requests have closed.
C8_PerRequestIsolation ==
    /\ \A r1, r2 \in Requests :
          (r1 # r2 /\ Opened(r1) /\ Opened(r2)) =>
              /\ db[r1] # db[r2]
              /\ held[r1] \cap held[r2] = {}
    /\ \A r \in Requests :
          /\ \A repo \in held[r] : repo.db = db[r]
          /\ rpc[r] = "yielded" => sessions[db[r]] = 0

\* a request still uses its repositories after a request that overlapped it closed its session
C8_Witness ==
    \E r1, r2 \in Requests :
        /\ r1 # r2
        /\ rpc[r1] = "done" /\ sessions[db[r1]] = 1 /\ db[r1] > db[r2]
        /\ rpc[r2] = "yielded" /\ sessions[db[r2]] = 0
        /\ Cardinality(held[r2]) = 3

====
